---- MODULE Spec2Model ----
(***************************************************************************)
(* Model of the copy-count monitor: the retrying HTTP fetchers of          *)
(* api_requests.py (fetch_binance_lead_details, get_deal), the page parser *)
(* parse_binance_lead_data, the threshold monitor loop of main.py and the  *)
(* deal ingestion loop of copy_deal.py (CopyDeal.get_data_insert).         *)
(*                                                                         *)
(* Conventions.  Python values are tagged records: None is [tag |-> "None"]*)
(* a dict result is [tag |-> "dict", ...], a list is [tag |-> "list", ...].*)
(* Durations are in tenths of a second (backoff_factor 0.3 is 3); the      *)
(* doubling 0.3 * 2^k is exact in binary floating point, so the integer    *)
(* arithmetic loses nothing.  md5 is modelled as collision free on the     *)
(* strings of the model.                                                   *)
(***************************************************************************)
EXTENDS Integers, Sequences, FiniteSets, TLC

VARIABLES
    \* ---- one call of a fetcher (api_requests.py) ----
    fn,              \* which fetcher runs: "fetch_binance_lead_details" or "get_deal"
    max_retries,     \* argument max_retries
    backoff_factor,  \* argument backoff_factor, in tenths of a second
    attempt,         \* the loop variable of `for attempt in range(max_retries + 1)`
    fpc,             \* "loop": in the retry loop, "returned", "raised"
    ret,             \* the value returned (or the exception raised) by the call
    attempts,        \* history: number of HTTP requests sent by this call
    sleeps,          \* history: the time.sleep durations of this call, in order
    last,            \* history: the outcome of the latest HTTP request and its attempt index
    retryableFailures, \* history: number of requests that failed with a retryable failure
    \* ---- the threshold monitor (main.py) ----
    mpc,             \* "body": at the top of the while loop, "sleep": at time.sleep(check_interval)
    error_count,     \* local variable error_count of main()
    cycleAlerts,     \* history: the dd_sender calls of the current cycle, in order
    cycleInput,      \* history: what the current cycle's fetch and page were
    mh,              \* history of the monitor run (counters, see MonitorHistory0)
    \* ---- the deal ingestion loop (copy_deal.py) ----
    \* (per loop: one process running get_data_insert; the store is shared)
    ipc,             \* ipc[p]: position of loop p in get_data_insert
    retry_count,     \* retry_count[p]: local variable retry_count
    data,            \* data[p]: local variable data, the list get_deal returned
    pos,             \* pos[p]: index in data[p] of each_data (1-based)
    store,           \* the collection copy_deal_data: documents in insertion order
    sent,            \* history: the dd_sender calls of the loops, in order
    ih               \* history of the ingestion run (see IngestHistory0)

fvars == <<fn, max_retries, backoff_factor, attempt, fpc, ret, attempts, sleeps, last,
           retryableFailures>>
mvars == <<mpc, error_count, cycleAlerts, cycleInput, mh>>
ivars == <<ipc, retry_count, data, pos, store, sent, ih>>
vars  == <<fvars, mvars, ivars>>

(***************************************************************************)
(* Bounds of the model.                                                    *)
(***************************************************************************)
MaxRetriesArg == 3   \* max_retries ranges over 0..MaxRetriesArg
MaxCycles     == 7   \* poll cycles of the threshold monitor
MaxIngest     == 3   \* get_deal calls of one ingestion loop that return records
MaxShared     == 1   \* the same, for each of two loops that share the store

(***************************************************************************)
(* Python values.                                                          *)
(***************************************************************************)
NoneVal == [tag |-> "None"]

RECURSIVE Pow2(_)
Pow2(n) == IF n <= 0 THEN 1 ELSE 2 * Pow2(n - 1)

(***************************************************************************)
(* Records of the order history.  A record is a Python dict: its items in  *)
(* insertion order, each item a <<key, value>> pair.                       *)
(***************************************************************************)
RecBtcBuy    == << <<"symbol", "BTCUSDT">>, <<"side", "BUY">> >>
RecBtcBuyRev == << <<"side", "BUY">>, <<"symbol", "BTCUSDT">> >>
RecBtcSell   == << <<"symbol", "BTCUSDT">>, <<"side", "SELL">> >>
Records == {RecBtcBuy, RecBtcBuyRev, RecBtcSell}

\* The data.list values of the model: empty, one record, a record twice, two
\* records that differ in one field (in both orders), and the same fields in
\* two key orders.
DealLists ==
    {<<>>,
     <<RecBtcBuy>>,
     <<RecBtcBuy, RecBtcBuy>>,
     <<RecBtcBuy, RecBtcSell>>,
     <<RecBtcSell, RecBtcBuy>>,
     <<RecBtcBuy, RecBtcBuyRev>>,
     <<RecBtcSell, RecBtcBuyRev, RecBtcSell>>}

(***************************************************************************)
(* What one HTTP request can come back with.                               *)
(*   net    : "ok" (a response arrived) or the requests exception raised   *)
(*   status : the response's status code                                   *)
(*   body   : the response body                                            *)
(***************************************************************************)
Statuses == {200, 304, 404, 429, 500, 502, 503, 504}
TransportFaults == {"ConnectionError", "ConnectTimeout", "ReadTimeout", "TooManyRedirects"}

\* Bodies of the lead-details page, by what parse_binance_lead_data meets in them.
\*   marker : the element with id __APP_DATA is present
\*   json   : "invalid" | "notdict" (valid JSON, not an object) | "object"
\*   path   : "ok" | "KeyError" | "IndexError" : the walk of the fixed path
\*   user   : "dict" | "list" : the type of the object at the end of the path
\*   count  : the value of currentCopyCount, a JSON scalar [t, v]
JInt(n) == [t |-> "int", v |-> n]
JStr    == [t |-> "str", v |-> 0]
JNull   == [t |-> "null", v |-> 0]
CopyCounts == {JInt(0), JInt(900), JInt(1000), JInt(1200), JInt(1500), JStr, JNull}

Page(m, j, p, u, c) == [marker |-> m, json |-> j, path |-> p, user |-> u, count |-> c]
Pages ==
    {Page(FALSE, "invalid", "ok", "dict", JNull),
     Page(TRUE, "invalid", "ok", "dict", JNull),
     Page(TRUE, "notdict", "ok", "dict", JNull),
     Page(TRUE, "object", "KeyError", "dict", JNull),
     Page(TRUE, "object", "IndexError", "dict", JNull),
     Page(TRUE, "object", "ok", "list", JNull)}
    \cup {Page(TRUE, "object", "ok", "dict", c) : c \in CopyCounts}

\* Bodies of the order-history endpoint.
\*   json : "invalid" | "array" (valid JSON, not an object) | "object"
\*   code : the envelope's code
\*   data : "absent" | "null" | "nolist" (an object without list) | "list"
\*   list : data.list
Envelope(j, c, d, l) == [json |-> j, code |-> c, data |-> d, list |-> l]
Envelopes ==
    {Envelope("invalid", "", "absent", <<>>),
     Envelope("array", "", "absent", <<>>),
     Envelope("object", "100001", "absent", <<>>),
     Envelope("object", "000000", "absent", <<>>),
     Envelope("object", "000000", "null", <<>>),
     Envelope("object", "000000", "nolist", <<>>)}
    \cup {Envelope("object", "000000", "list", l) : l \in DealLists}

NoBody == [json |-> "none"]

Bodies(f) == IF f = "get_deal" THEN Envelopes ELSE Pages

Outcomes(f) ==
    {[net |-> "ok", status |-> s, body |-> b] : s \in Statuses, b \in Bodies(f)}
    \cup {[net |-> x, status |-> 0, body |-> NoBody] : x \in TransportFaults}

(***************************************************************************)
(* The try body and the except clauses of the two fetchers.                *)
(***************************************************************************)
\* The classes an exception is an instance of (requests.exceptions and builtins).
\* response.json() on a body that is not JSON raises requests' JSONDecodeError
\* (a RequestException and a json.JSONDecodeError) with requests >= 2.27 and
\* json.JSONDecodeError with older versions: both are kept.
ClassesOf(e) ==
    CASE e = "HTTPError"               -> {"HTTPError", "RequestException"}
      [] e = "ConnectionError"         -> {"ConnectionError", "RequestException"}
      [] e = "ConnectTimeout"          -> {"ConnectTimeout", "ConnectionError", "Timeout",
                                           "RequestException"}
      [] e = "ReadTimeout"             -> {"ReadTimeout", "Timeout", "RequestException"}
      [] e = "TooManyRedirects"        -> {"TooManyRedirects", "RequestException"}
      [] e = "RequestsJSONDecodeError" -> {"RequestsJSONDecodeError", "JSONDecodeError",
                                           "RequestException"}
      [] OTHER                         -> {e}

\* The except clauses of each fetcher, in source order.
ExceptClauses(f) ==
    IF f = "get_deal"
    THEN <<"HTTPError", "ConnectionError", "Timeout", "RequestException", "JSONDecodeError">>
    ELSE <<"HTTPError", "ConnectionError", "Timeout", "RequestException">>

\* Python runs the first clause the exception is an instance of.
Handler(f, e) ==
    LET cs == ExceptClauses(f)
        hit == {i \in 1..Len(cs) : cs[i] \in ClassesOf(e)}
    IN  IF hit = {} THEN "uncaught"
        ELSE cs[CHOOSE i \in hit : \A j \in hit : i <= j]

Return(v) == [act |-> "return", val |-> v]
Raise(e)  == [act |-> "raise", val |-> [tag |-> "exception", exc |-> e]]
Retry     == [act |-> "retry", val |-> NoneVal]

\* Response.raise_for_status() raises HTTPError for the statuses 400..599.
raise_for_status(status) == status >= 400 /\ status < 600

\* api_requests.py 87-96: the try body of fetch_binance_lead_details.
fetch_binance_lead_details_try(o) ==
    IF o.net # "ok" THEN Raise(o.net)
    ELSE IF raise_for_status(o.status) THEN Raise("HTTPError")
    ELSE Return([tag |-> "dict", status_code |-> o.status, text |-> o.body])

\* api_requests.py 257: result.get("code") != "000000"
ApiError_unchecked(code) == FALSE
ApiError(code) == code # "000000"

\* api_requests.py 242-262: the try body of get_deal.
get_deal_try(o) ==
    IF o.net # "ok" THEN Raise(o.net)
    ELSE IF raise_for_status(o.status) THEN Raise("HTTPError")
    ELSE IF o.body.json = "invalid" THEN Raise("RequestsJSONDecodeError")
    ELSE IF o.body.json = "array" THEN Raise("AttributeError")    \* result.get on a list
    ELSE IF ApiError(o.body.code) THEN Return(NoneVal)           \* 257-259
    ELSE IF o.body.data = "absent" THEN Raise("KeyError")         \* {}['list']
    ELSE IF o.body.data = "null" THEN Raise("TypeError")          \* None['list']
    ELSE IF o.body.data = "nolist" THEN Raise("KeyError")
    ELSE Return([tag |-> "list", items |-> o.body.list])

\* With requests older than 2.27 the same body raises json.JSONDecodeError.
get_deal_try_old(o) ==
    IF o.net = "ok" /\ ~raise_for_status(o.status) /\ o.body.json = "invalid"
    THEN Raise("JSONDecodeError")
    ELSE get_deal_try(o)

\* What the try body can do with outcome o (a set: the library version is not fixed).
TryBody(f, o) ==
    IF f = "get_deal" THEN {get_deal_try(o), get_deal_try_old(o)}
    ELSE {fetch_binance_lead_details_try(o)}

RetryStatuses == {429, 500, 502, 503, 504}

\* api_requests.py 99 / 265: the condition of the retry in the HTTPError clause.
HTTPErrorRetries_late(status, att, maxr) == status \in RetryStatuses /\ att <= maxr
HTTPErrorRetries_any(status, att, maxr) == att < maxr
HTTPErrorRetries(status, att, maxr) == status \in RetryStatuses /\ att < maxr

\* api_requests.py 107 / 273: the condition of the retry in the ConnectionError clause.
ConnectionErrorRetries_short(att, maxr) == att < maxr - 1
ConnectionErrorRetries(att, maxr) == att < maxr

\* api_requests.py 115 / 281: the condition of the retry in the Timeout clause.
TimeoutRetries_never(att, maxr) == FALSE
TimeoutRetries(att, maxr) == att < maxr

\* api_requests.py 100 / 266: sleep_time = backoff_factor * (2 ** attempt)
sleep_time_linear(bf, att) == bf * (att + 1)
sleep_time(bf, att) == bf * Pow2(att)

\* What the clause that catches exception e does at attempt att.
Clause(f, o, e, att, maxr) ==
    CASE Handler(f, e) = "HTTPError" ->
            IF HTTPErrorRetries(o.status, att, maxr) THEN Retry ELSE Return(NoneVal)
      [] Handler(f, e) = "ConnectionError" ->
            IF ConnectionErrorRetries(att, maxr) THEN Retry ELSE Return(NoneVal)
      [] Handler(f, e) = "Timeout" ->
            IF TimeoutRetries(att, maxr) THEN Retry ELSE Return(NoneVal)
      [] Handler(f, e) = "RequestException" -> Return(NoneVal)
      [] Handler(f, e) = "JSONDecodeError" -> Return(NoneVal)
      [] OTHER -> Raise(e)

\* One iteration of the retry loop on outcome o: the ways it can end.
Iteration(f, o, att, maxr) ==
    {IF t.act = "raise" THEN Clause(f, o, t.val.exc, att, maxr) ELSE t : t \in TryBody(f, o)}

(***************************************************************************)
(* One call of a fetcher, request by request.                              *)
(***************************************************************************)
BackoffFactors == {3, 5}
Fetchers == {"fetch_binance_lead_details", "get_deal"}

NoOutcome == [net |-> "none", status |-> 0, idx |-> -1, clause |-> "none", code |-> "none"]

\* The code of the envelope a response of the history endpoint carries ("none"
\* when the body is no JSON object or there was no response).
EnvelopeCode(f, o) ==
    IF f = "get_deal" /\ o.net = "ok" /\ o.body.json = "object" THEN o.body.code ELSE "none"

\* A retryable failure, in the words of the glossary: one of the five statuses,
\* a connection failure or a timeout.
IsRetryableFailure(o) ==
    \/ o.net = "ok" /\ o.status \in {429, 500, 502, 503, 504}
    \/ o.net \in {"ConnectionError", "ConnectTimeout", "ReadTimeout"}

\* The request of iteration `attempt` comes back with o, the try body does t, and
\* the iteration ends with r (a member of Iteration).
Request(o, t, r) ==
    /\ attempts' = attempts + 1
    /\ retryableFailures' = retryableFailures + (IF IsRetryableFailure(o) THEN 1 ELSE 0)
    /\ last' = [net |-> o.net, status |-> o.status, idx |-> attempt,
                clause |-> IF t.act = "raise" THEN Handler(fn, t.val.exc) ELSE "none",
                code |-> EnvelopeCode(fn, o)]
    /\ IF r.act = "retry"
       THEN \* time.sleep(sleep_time); continue; the for loop takes the next attempt
            \* or, when the range is used up, falls through to the final return None
            /\ sleeps' = Append(sleeps, sleep_time(backoff_factor, attempt))
            /\ attempt' = attempt + 1
            /\ IF attempt + 1 < max_retries + 1
               THEN fpc' = "loop" /\ ret' = ret
               ELSE fpc' = "returned" /\ ret' = NoneVal
       ELSE /\ sleeps' = sleeps
            /\ attempt' = attempt
            /\ fpc' = IF r.act = "raise" THEN "raised" ELSE "returned"
            /\ ret' = r.val
    /\ UNCHANGED <<fn, max_retries, backoff_factor>>

\* The iteration whose try body ends in `return` (api_requests.py 93-96, 259, 262).
TryReturns ==
    /\ fpc = "loop"
    /\ \E o \in Outcomes(fn) : \E t \in TryBody(fn, o) :
          /\ t.act = "return"
          /\ Request(o, t, t)
    /\ UNCHANGED <<mvars, ivars>>

\* The iteration that ends in the except clause c.
Except(c) ==
    \E o \in Outcomes(fn) : \E t \in TryBody(fn, o) :
        /\ t.act = "raise"
        /\ Handler(fn, t.val.exc) = c
        /\ Request(o, t, Clause(fn, o, t.val.exc, attempt, max_retries))

\* api_requests.py 98-105, 264-271
ExceptHTTPError ==
    /\ fpc = "loop"
    /\ Except("HTTPError")
    /\ UNCHANGED <<mvars, ivars>>

\* api_requests.py 106-113, 272-279
ExceptConnectionError ==
    /\ fpc = "loop"
    /\ Except("ConnectionError")
    /\ UNCHANGED <<mvars, ivars>>

\* api_requests.py 114-121, 280-287
ExceptTimeout ==
    /\ fpc = "loop"
    /\ Except("Timeout")
    /\ UNCHANGED <<mvars, ivars>>

\* api_requests.py 122-124, 288-290
ExceptRequestException ==
    /\ fpc = "loop"
    /\ Except("RequestException")
    /\ UNCHANGED <<mvars, ivars>>

\* api_requests.py 291-293 (get_deal only)
ExceptJSONDecodeError ==
    /\ fpc = "loop"
    /\ Except("JSONDecodeError")
    /\ UNCHANGED <<mvars, ivars>>

\* An exception no clause catches leaves the function.
Uncaught ==
    /\ fpc = "loop"
    /\ Except("uncaught")
    /\ UNCHANGED <<mvars, ivars>>

MonitorIdle ==
    /\ mpc = "off" /\ error_count = 0 /\ cycleAlerts = <<>>
    /\ cycleInput = NoneVal /\ mh = NoneVal

FetchIdle ==
    /\ fn = "none" /\ max_retries = 0 /\ backoff_factor = 0 /\ attempt = 0
    /\ fpc = "off" /\ ret = NoneVal /\ attempts = 0 /\ sleeps = <<>>
    /\ last = NoOutcome /\ retryableFailures = 0
Loops == {1, 2}

IngestIdle ==
    /\ ipc = [p \in Loops |-> "off"]
    /\ retry_count = [p \in Loops |-> 0]
    /\ data = [p \in Loops |-> <<>>]
    /\ pos = [p \in Loops |-> 0]
    /\ store = <<>> /\ sent = <<>> /\ ih = NoneVal

FetchInit ==
    /\ fn \in Fetchers
    /\ max_retries \in 0..MaxRetriesArg
    /\ backoff_factor \in BackoffFactors
    /\ attempt = 0
    /\ fpc = "loop"
    /\ ret = [tag |-> "pending"]
    /\ attempts = 0
    /\ sleeps = <<>>
    /\ last = NoOutcome
    /\ retryableFailures = 0
    /\ MonitorIdle
    /\ IngestIdle

FetchNext ==
    \/ TryReturns
    \/ ExceptHTTPError
    \/ ExceptConnectionError
    \/ ExceptTimeout
    \/ ExceptRequestException
    \/ ExceptJSONDecodeError
    \/ Uncaught

SpecFetch == FetchInit /\ [][FetchNext]_vars

(***************************************************************************)
(* A whole call of a fetcher, as its callers see it: the values it can end *)
(* with.  A call ends in the iteration that does not retry.                *)
(***************************************************************************)
DefaultMaxRetries == 3

CallResults(f, maxr) ==
    {r \in UNION {Iteration(f, o, att, maxr) : o \in Outcomes(f), att \in 0..maxr} :
        r.act # "retry"}

\* The calls the two loops make, with the default arguments.
LeadDetailsResults == CallResults("fetch_binance_lead_details", DefaultMaxRetries)
GetDealResults == CallResults("get_deal", DefaultMaxRetries)

(***************************************************************************)
(* parse_binance_lead_data (api_requests.py 148-200), on the value that    *)
(* fetch_binance_lead_details returned.                                    *)
(***************************************************************************)
\* api_requests.py 174-183: the exception that json.loads, the walk down the fixed
\* path or user_dict.get raises on the marker's text, "none" when none does.
ParseRaises(text) ==
    IF text.json = "invalid" THEN "JSONDecodeError"           \* 174
    ELSE IF text.json = "notdict" THEN "TypeError"            \* 176: app_data['appState']
    ELSE IF text.path # "ok" THEN text.path                   \* 176: KeyError, IndexError
    ELSE IF text.user # "dict" THEN "AttributeError"          \* 183: user_dict.get
    ELSE "none"

\* api_requests.py 178: except (json.JSONDecodeError, KeyError, IndexError)
InnerCaught_jsonOnly == {"JSONDecodeError"}
InnerCaught == {"JSONDecodeError", "KeyError", "IndexError"}

\* api_requests.py 183-184: current_copy_count is None (the key is absent or
\* its value is null)
CountMissing_falsy(c) == c.t = "null" \/ (c.t = "int" /\ c.v = 0)
CountMissing(c) == c.t = "null"

\* api_requests.py 159-200: the return statement the call leaves by (its line)
\* and the value returned.  The outer `except Exception` (198-200) catches what
\* the inner clause does not.
parse_exit(result) ==
    IF result.tag # "dict" THEN [line |-> 161, val |-> NoneVal]
    ELSE LET text == result.text IN
         IF ~text.marker THEN [line |-> 170, val |-> NoneVal]
         ELSE IF ParseRaises(text) \in InnerCaught THEN [line |-> 180, val |-> NoneVal]
         ELSE IF ParseRaises(text) # "none" THEN [line |-> 200, val |-> NoneVal]
         ELSE IF CountMissing(text.count) THEN [line |-> 186, val |-> NoneVal]
         ELSE [line |-> 196,
               val |-> [tag |-> "dict", current_copy_count |-> text.count]]

parse_binance_lead_data(result) == parse_exit(result).val

(***************************************************************************)
(* The threshold monitor: main() of main.py.                               *)
(***************************************************************************)
threshold == 1000
max_error_count == 5
check_interval == 60

Alert(sev, n) == [sev |-> sev, n |-> n]

\* main.py 71: current_copy_count < threshold (on a number)
BelowThreshold_orEqual(v) == v <= threshold
BelowThreshold(v) == v < threshold

\* main.py 85, 97: error_count >= max_error_count
CriticalDue_exceeds(ec) == ec > max_error_count
CriticalDue(ec) == ec >= max_error_count

\* main.py 79-88 and 91-100: count the error, send the error alert, and the
\* critical alert when due.
ErrorAlerts_once(ec) ==
    <<Alert("error", ec)>> \o
    (IF ec = max_error_count THEN <<Alert("critical", ec)>> ELSE <<>>)
ErrorAlerts(ec) ==
    <<Alert("error", ec)>> \o (IF CriticalDue(ec) THEN <<Alert("critical", ec)>> ELSE <<>>)

\* What requests.post of dd_sender can come back with: a response with a status,
\* or a transport fault.
PostOutcomes ==
    {[net |-> "ok", status |-> s] : s \in Statuses}
    \cup {[net |-> x, status |-> 0] : x \in TransportFaults}

\* main.py 29-30: the exception the try body of dd_sender raises, "none" when the
\* post came back with a status that raise_for_status accepts.
PostRaises(o) ==
    IF o.net # "ok" THEN o.net
    ELSE IF raise_for_status(o.status) THEN "HTTPError"
    ELSE "none"

\* main.py 33: except requests.exceptions.RequestException
DdSenderCatches_httpOnly == "HTTPError"
DdSenderCatches == "RequestException"

\* main.py 8-34 (copy_deal.py 16-42 is the same code): one call of dd_sender
\* whose post comes back with o: the posts made, whether the alert was
\* delivered, and whether an exception left the function.
dd_sender_retry(o) ==
    [posts |-> IF PostRaises(o) = "none" THEN 1 ELSE 2,
     delivered |-> PostRaises(o) = "none",
     raised |-> FALSE]
dd_sender(o) ==
    [posts |-> 1,
     delivered |-> PostRaises(o) = "none",
     raised |-> PostRaises(o) # "none" /\ DdSenderCatches \notin ClassesOf(PostRaises(o))]

\* What a dd_sender call can do, over the outcomes of its post.
DdSenderResults == {dd_sender(o) : o \in PostOutcomes}

\* main.py 59-100: one pass of the loop body, from error_count = ec and the
\* value parse_binance_lead_data returned.  The comparison of line 71 raises
\* TypeError when currentCopyCount is not a number; by then line 68 has reset
\* the counter, and the handler of line 90 counts from there.
main_body(ec, result) ==
    IF result.tag = "dict"                                    \* 63
    THEN LET count == result.current_copy_count
             ec1 == 0                                          \* 68
         IN  IF count.t = "int"
             THEN [path |-> "success", error_count |-> ec1,
                   alerts |-> IF BelowThreshold(count.v)       \* 71-74
                              THEN <<Alert("warning", count.v)>> ELSE <<>>]
             ELSE [path |-> "exception", error_count |-> ec1 + 1,   \* 90-91
                   alerts |-> ErrorAlerts(ec1 + 1)]            \* 92-100
    ELSE [path |-> "failure", error_count |-> ec + 1,         \* 78-79
          alerts |-> ErrorAlerts(ec + 1)]                     \* 80-88

\* History of a monitor run.
\*   cycles      : completed passes of the loop body
\*   kind        : the path of the latest pass: "success", "failure", "exception"
\*   before      : error_count when the latest pass began
\*   failedSince : passes that ended on an error path since the latest pass that
\*                 ended on the success path (or since the start)
\*   raisedSince : one of those passes ended in the exception handler
\*   sleeps      : the time.sleep calls of line 103 made so far
\*   slept       : the seconds the latest of them lasted
\*   dd          : what each dd_sender call of the latest pass did, in order
\*   scen, scenWarn : how much of the value sequence 1500, 900, 1200 the latest
\*                 passes have parsed, and whether each of them sent a warning
MonitorHistory0 ==
    [cycles |-> 0, kind |-> "none", before |-> 0, failedSince |-> 0,
     raisedSince |-> FALSE, sleeps |-> 0, slept |-> 0, dd |-> <<>>,
     scen |-> 0, scenWarn |-> <<>>]

Example == <<1500, 900, 1200>>

Track(result, c) ==
    LET isNum == result.tag = "dict" /\ result.current_copy_count.t = "int"
        v == IF isNum THEN result.current_copy_count.v ELSE -1
        warned == \E i \in 1..Len(c.alerts) : c.alerts[i].sev = "warning"
    IN  IF isNum /\ mh.scen < 3 /\ v = Example[mh.scen + 1]
        THEN [scen |-> mh.scen + 1, scenWarn |-> Append(mh.scenWarn, warned)]
        ELSE IF isNum /\ v = Example[1]
        THEN [scen |-> 1, scenWarn |-> <<warned>>]
        ELSE [scen |-> 0, scenWarn |-> <<>>]

\* main.py 103 stands after the try statement, outside its blocks: a pass that
\* took any of the three paths goes on to the sleep.
AfterPass_notAfterException(path) == IF path = "exception" THEN "body" ELSE "sleep"
AfterPass(path) == "sleep"

\* One pass of the loop body that takes the given path; dd is what its dd_sender
\* calls do, one for each alert.  No outcome of the post makes dd_sender
\* raise; an exception leaving it would end the pass, and from the handler of
\* lines 90-100 it would leave main.
Pass(path) ==
    \E r \in LeadDetailsResults :
        LET result == parse_binance_lead_data(r.val)
            c == main_body(error_count, result)
            t == Track(result, c)
        IN  /\ c.path = path
            /\ \E dd \in [1..Len(c.alerts) -> DdSenderResults] :
                /\ mh' = [cycles |-> mh.cycles + 1,
                          kind |-> path,
                          before |-> error_count,
                          failedSince |-> IF path = "success" THEN 0 ELSE mh.failedSince + 1,
                          raisedSince |-> IF path = "success" THEN FALSE
                                          ELSE (mh.raisedSince \/ path = "exception"),
                          sleeps |-> mh.sleeps, slept |-> mh.slept,
                          dd |-> dd,
                          scen |-> t.scen, scenWarn |-> t.scenWarn]
                /\ mpc' = IF \E k \in 1..Len(dd) : dd[k].raised
                          THEN "raised" ELSE AfterPass(path)
            /\ error_count' = c.error_count
            /\ cycleAlerts' = c.alerts
            /\ cycleInput' = [tag |-> "input", fetched |-> r.val.tag = "dict",
                              page |-> IF r.val.tag = "dict" THEN r.val.text ELSE NoBody,
                              exit |-> parse_exit(r.val).line,
                              result |-> result]

\* main.py 61-76
CycleSuccess ==
    /\ mpc = "body" /\ mh.cycles < MaxCycles
    /\ Pass("success")
    /\ UNCHANGED <<fvars, ivars>>

\* main.py 61-63, 78-88
CycleFailure ==
    /\ mpc = "body" /\ mh.cycles < MaxCycles
    /\ Pass("failure")
    /\ UNCHANGED <<fvars, ivars>>

\* main.py 61-71, 90-100
CycleException ==
    /\ mpc = "body" /\ mh.cycles < MaxCycles
    /\ Pass("exception")
    /\ UNCHANGED <<fvars, ivars>>

\* main.py 103: time.sleep(check_interval), then the next pass
MonitorSleep ==
    /\ mpc = "sleep"
    /\ mpc' = "body"
    /\ cycleAlerts' = <<>>
    /\ mh' = [mh EXCEPT !.sleeps = @ + 1, !.slept = check_interval]
    /\ UNCHANGED <<error_count, cycleInput>>
    /\ UNCHANGED <<fvars, ivars>>

\* main.py 46-56
MonitorInit ==
    /\ mpc = "body"
    /\ error_count = 0
    /\ cycleAlerts = <<>>
    /\ cycleInput = NoneVal
    /\ mh = MonitorHistory0
    /\ FetchIdle
    /\ IngestIdle

MonitorNext ==
    \/ CycleSuccess
    \/ CycleFailure
    \/ CycleException
    \/ MonitorSleep

SpecMonitor == MonitorInit /\ [][MonitorNext]_vars

\* main is sequential code: after a pass it executes the sleep, after the sleep
\* the next pass; the fetch has a timeout and time.sleep returns.
SpecMonitorLive == SpecMonitor /\ WF_vars(MonitorNext)

(***************************************************************************)
(* The deal ingestion loop: CopyDeal.get_data_insert of copy_deal.py.      *)
(***************************************************************************)
\* str(each_data): Python renders a dict as its items in insertion order,
\* "{'k1': 'v1', 'k2': 'v2'}".  The text is kept as its sequence of tokens.
RECURSIVE Items(_)
Items(rec) ==
    IF rec = <<>> THEN <<>>
    ELSE <<rec[1][1], ":", rec[1][2]>>
         \o (IF Len(rec) > 1 THEN <<",">> ELSE <<>>)
         \o Items(Tail(rec))

py_str(rec) == <<"{">> \o Items(rec) \o <<"}">>

\* copy_deal.py 49-57: the hex digest of the text.  md5 is taken to be collision
\* free on the texts of the model: the digest stands for the text it was made of.
md5_encrypt(text) == [md5 |-> text]

\* copy_deal.py 79: md5_str = self.md5_encrypt(str(each_data))
Fingerprint(rec) == md5_encrypt(py_str(rec))

\* copy_deal.py 80: self.db.find_one({'_id': md5_str}) found a document
find_one_any(st, id) == st # <<>>
find_one_never(st, id) == FALSE
find_one(st, id) == \E k \in 1..Len(st) : st[k].id = id

\* copy_deal.py 65: `not data` holds for None and for the empty list
NoData(v) == v.tag = "None" \/ (v.tag = "list" /\ v.items = <<>>)

\* copy_deal.py 69: retry_count >= 5
RetryLimit == 5

\* History of an ingestion run.
\*   cycles[p]   : get_deal calls of loop p that returned records
\*   input[p]    : the list the latest of them returned
\*   startLen[p] : the number of documents in the store when that cycle began
\*   marked      : the input of some earlier completed cycle (any one of them)
\*   fault[p]    : the call whose exception ended loop p ("none" while it runs)
\*   nones[p]    : the get_deal calls of loop p that returned None
\*   run[p]      : the get_deal calls of loop p that returned no data since the
\*                 latest one that returned records (or since the start)
\*   looked      : the records fingerprinted so far, each with the digest computed
IngestHistory0 ==
    [cycles |-> [p \in Loops |-> 0],
     input |-> [p \in Loops |-> <<>>],
     startLen |-> [p \in Loops |-> 0],
     marked |-> NoneVal,
     fault |-> [p \in Loops |-> "none"],
     nones |-> [p \in Loops |-> 0],
     run |-> [p \in Loops |-> 0],
     looked |-> {}]

\* The cycles with records a loop is followed through: MaxIngest when it runs
\* alone, MaxShared each when two loops share the store.
Alone == \E q \in Loops : ipc[q] = "off"
CyclesFollowed == IF Alone THEN MaxIngest ELSE MaxShared

\* The calls without data a loop is followed through: all of them when it runs
\* alone, MaxShared each when two loops share the store.
NoDataFollowed == IF Alone THEN RetryLimit ELSE MaxShared

\* copy_deal.py 64, 77: get_deal returned a non-empty list; the for loop begins.
GetDealData(p) ==
    /\ ipc[p] = "fetch" /\ ih.cycles[p] < CyclesFollowed
    /\ \E r \in GetDealResults :
          /\ r.act = "return" /\ ~NoData(r.val)
          /\ data' = [data EXCEPT ![p] = r.val.items]
          /\ ih' = [ih EXCEPT !.cycles[p] = @ + 1, !.input[p] = r.val.items,
                              !.startLen[p] = Len(store), !.run[p] = 0]
    /\ pos' = [pos EXCEPT ![p] = 1]
    /\ ipc' = [ipc EXCEPT ![p] = "lookup"]
    /\ UNCHANGED <<retry_count, store, sent>>
    /\ UNCHANGED <<fvars, mvars>>

\* copy_deal.py 64-75: get_deal returned None or an empty list.
GetDealNoData(p) ==
    /\ ipc[p] = "fetch" /\ retry_count[p] < NoDataFollowed
    /\ \E r \in GetDealResults :
          /\ r.act = "return" /\ NoData(r.val)
          /\ data' = [data EXCEPT ![p] = <<>>]
          /\ ih' = [ih EXCEPT !.run[p] = @ + 1,
                              !.nones[p] = @ + (IF r.val.tag = "None" THEN 1 ELSE 0)]
    /\ retry_count' = [retry_count EXCEPT ![p] = @ + 1]
    /\ IF retry_count[p] + 1 >= RetryLimit
       THEN /\ sent' = Append(sent, [loop |-> p, sev |-> "critical", rec |-> <<>>])
            /\ ipc' = [ipc EXCEPT ![p] = "returned"]      \* break
       ELSE /\ sent' = sent
            /\ ipc' = [ipc EXCEPT ![p] = "fetch"]         \* time.sleep(5); continue
    /\ UNCHANGED <<pos, store>>
    /\ UNCHANGED <<fvars, mvars>>

\* copy_deal.py 64: get_deal raised; nothing in get_data_insert catches it.
GetDealRaised(p) ==
    /\ ipc[p] = "fetch"
    /\ \E r \in GetDealResults : r.act = "raise"
    /\ ipc' = [ipc EXCEPT ![p] = "raised"]
    /\ ih' = [ih EXCEPT !.fault[p] = "get_deal"]
    /\ UNCHANGED <<retry_count, data, pos, store, sent>>
    /\ UNCHANGED <<fvars, mvars>>

\* The for loop takes the next record, or ends and the loop sleeps (line 95).
AfterRecord(p) == IF pos[p] < Len(data[p]) THEN "lookup" ELSE "sleep"

\* copy_deal.py 77-82: fingerprint each_data and look it up; a record found is
\* skipped.
Lookup(p) ==
    /\ ipc[p] = "lookup"
    /\ LET each_data == data[p][pos[p]]
           md5_str == Fingerprint(each_data)
       IN  /\ ih' = [ih EXCEPT !.looked = @ \cup {[rec |-> each_data, md5 |-> md5_str]}]
           /\ IF find_one(store, md5_str)
              THEN /\ ipc' = [ipc EXCEPT ![p] = AfterRecord(p)]
                   /\ pos' = [pos EXCEPT ![p] = @ + 1]
              ELSE /\ ipc' = [ipc EXCEPT ![p] = "insert"]
                   /\ pos' = pos
    /\ UNCHANGED <<retry_count, data, store, sent>>
    /\ UNCHANGED <<fvars, mvars>>

\* copy_deal.py 84-85: the document written: the record's fields and, as _id,
\* the digest computed at line 79 from the record as it was received.
Document_idAfterWrite(each_data, md5_str) ==
    [id |-> md5_encrypt(py_str(Append(each_data, <<"_id", "md5">>))), fields |-> each_data]
Document(each_data, md5_str) == [id |-> md5_str, fields |-> each_data]

\* copy_deal.py 84-85: each_data['_id'] = md5_str; self.db.insert_one(each_data).
\* The collection's _id index is unique: inserting an _id that is present raises
\* DuplicateKeyError, which nothing in get_data_insert catches.
Insert(p) ==
    /\ ipc[p] = "insert"
    /\ LET each_data == data[p][pos[p]]
           md5_str == Fingerprint(each_data)
       IN  IF find_one(store, md5_str)
           THEN /\ ipc' = [ipc EXCEPT ![p] = "raised"]
                /\ ih' = [ih EXCEPT !.fault[p] = "DuplicateKeyError"]
                /\ store' = store
           ELSE /\ store' = Append(store, Document(each_data, md5_str))
                /\ ipc' = [ipc EXCEPT ![p] = "alert"]
                /\ ih' = ih
    /\ UNCHANGED <<retry_count, data, pos, sent>>
    /\ UNCHANGED <<fvars, mvars>>

\* copy_deal.py 77-85: find_one and insert_one are called outside any try block:
\* an exception of the store (the server is unreachable, the operation fails)
\* leaves get_data_insert.
AfterStoreError_swallowed == "alert"
AfterStoreError == "raised"

\* copy_deal.py 80: find_one raises.
LookupFails(p) ==
    /\ ipc[p] = "lookup"
    /\ ipc' = [ipc EXCEPT ![p] = AfterStoreError]
    /\ ih' = [ih EXCEPT !.fault[p] = "find_one"]
    /\ UNCHANGED <<retry_count, data, pos, store, sent>>
    /\ UNCHANGED <<fvars, mvars>>

\* copy_deal.py 85: insert_one raises and the document is not written.
InsertFails(p) ==
    /\ ipc[p] = "insert"
    /\ ipc' = [ipc EXCEPT ![p] = AfterStoreError]
    /\ ih' = [ih EXCEPT !.fault[p] = "insert_one"]
    /\ UNCHANGED <<retry_count, data, pos, store, sent>>
    /\ UNCHANGED <<fvars, mvars>>

\* copy_deal.py 87-94: the dd_sender calls made for an inserted record: one,
\* with the summary of the trade.
InfoAlertsFor_twice(p, rec) ==
    <<[loop |-> p, sev |-> "info", rec |-> rec], [loop |-> p, sev |-> "info", rec |-> rec]>>
InfoAlertsFor(p, rec) == <<[loop |-> p, sev |-> "info", rec |-> rec]>>

\* copy_deal.py 87-94: the informational alert for the record just inserted.
InfoAlert(p) ==
    /\ ipc[p] = "alert"
    /\ sent' = sent \o InfoAlertsFor(p, data[p][pos[p]])
    /\ ipc' = [ipc EXCEPT ![p] = AfterRecord(p)]
    /\ pos' = [pos EXCEPT ![p] = @ + 1]
    /\ UNCHANGED <<retry_count, data, store, ih>>
    /\ UNCHANGED <<fvars, mvars>>

\* copy_deal.py 95: time.sleep(30), then the next get_deal.
IngestSleep(p) ==
    /\ ipc[p] = "sleep"
    /\ ipc' = [ipc EXCEPT ![p] = "fetch"]
    /\ \E m \in {ih.marked, [tag |-> "list", items |-> ih.input[p]]} :
          ih' = [ih EXCEPT !.marked = m]
    /\ UNCHANGED <<retry_count, data, pos, store, sent>>
    /\ UNCHANGED <<fvars, mvars>>

\* copy_deal.py 99-100: one process runs get_data_insert on the collection.
IngestInit ==
    /\ ipc = [p \in Loops |-> IF p = 1 THEN "fetch" ELSE "off"]
    /\ retry_count = [p \in Loops |-> 0]
    /\ data = [p \in Loops |-> <<>>]
    /\ pos = [p \in Loops |-> 0]
    /\ store = <<>>
    /\ sent = <<>>
    /\ ih = IngestHistory0
    /\ FetchIdle
    /\ MonitorIdle

IngestNext ==
    \E p \in Loops :
        \/ GetDealData(p)
        \/ GetDealNoData(p)
        \/ GetDealRaised(p)
        \/ Lookup(p)
        \/ Insert(p)
        \/ LookupFails(p)
        \/ InsertFails(p)
        \/ InfoAlert(p)
        \/ IngestSleep(p)

SpecIngest == IngestInit /\ [][IngestNext]_vars

\* Two processes run get_data_insert on the same collection (the client and the
\* collection of copy_deal.py 9-13 and 46 are the one MongoDB server's).
IngestInit2 ==
    /\ ipc = [p \in Loops |-> "fetch"]
    /\ retry_count = [p \in Loops |-> 0]
    /\ data = [p \in Loops |-> <<>>]
    /\ pos = [p \in Loops |-> 0]
    /\ store = <<>>
    /\ sent = <<>>
    /\ ih = IngestHistory0
    /\ FetchIdle
    /\ MonitorIdle

SpecIngest2 == IngestInit2 /\ [][IngestNext]_vars

(***************************************************************************)
(* Claims about one fetcher call (checked under SpecFetch).                *)
(***************************************************************************)
LastRetryable == last.net # "none" /\ IsRetryableFailure(last)
LastWasResponse == last.net = "ok"

\* C1: for a non-negative max_retries a call sends at least one and at most
\* max_retries + 1 requests, exactly max_retries + 1 when every request failed
\* with a retryable failure, and none after a success or a terminal failure
\* (once the latest request ended otherwise than in a retryable failure, the
\* call has ended).
C1_AttemptCount ==
    /\ attempts <= max_retries + 1
    /\ fpc = "loop" => attempts = attempt /\ attempt <= max_retries
    /\ fpc # "loop" => attempts >= 1
    /\ (fpc # "loop" /\ retryableFailures = attempts) => attempts = max_retries + 1
    /\ (last.net # "none" /\ ~LastRetryable) => (fpc # "loop" /\ attempts = last.idx + 1)

\* C1 witness: a call with max_retries = 3 whose four requests all failed retryably.
C1_Witness ==
    /\ fpc = "returned" /\ max_retries = 3
    /\ retryableFailures = 4 /\ attempts = 4

\* The call went on after the request of index last.idx: it slept once and the
\* next iteration is due.
WentOn ==
    /\ fpc = "loop"
    /\ attempt = last.idx + 1
    /\ Len(sleeps) = last.idx + 1

\* The call ended with the failure value at the request of index last.idx,
\* without a sleep after it.
EndedAtOnce ==
    /\ fpc = "returned"
    /\ ret = NoneVal
    /\ attempt = last.idx
    /\ attempts = last.idx + 1
    /\ Len(sleeps) = last.idx

\* C2 as stated: a status in {429, 500, 502, 503, 504} with retries left leads to
\* a sleep and another attempt; such a status on the last allowed attempt, or any
\* other non-2xx status, ends the call at once with the failure value.
C2_AnyNon2xxFails ==
    LastWasResponse =>
        /\ (last.status \in {429, 500, 502, 503, 504} /\ last.idx < max_retries) => WentOn
        /\ (last.status \in {429, 500, 502, 503, 504} /\ last.idx >= max_retries)
              => EndedAtOnce
        /\ (last.status \notin {429, 500, 502, 503, 504}
              /\ ~(last.status >= 200 /\ last.status < 300)) => EndedAtOnce

\* C2 amended: the same, with "any other error status (400..599)" in place of
\* "any other non-2xx status".
C2_ErrorStatus ==
    LastWasResponse =>
        /\ (last.status \in {429, 500, 502, 503, 504} /\ last.idx < max_retries) => WentOn
        /\ (last.status \in {429, 500, 502, 503, 504} /\ last.idx >= max_retries)
              => EndedAtOnce
        /\ (last.status \notin {429, 500, 502, 503, 504}
              /\ last.status >= 400 /\ last.status < 600) => EndedAtOnce

\* C2 witness: a 404 on the first request of a call that had three retries left.
C2_Witness ==
    /\ LastWasResponse /\ last.status = 404 /\ last.idx = 0
    /\ max_retries = 3 /\ fpc = "returned"

\* C3: a connection failure or a timeout is retried with backoff while attempts
\* remain and gives the failure value once they are used up; any other
\* transport-level failure gives the failure value at once, without sleep or retry.
C3_TransportFailures ==
    /\ (last.net \in {"ConnectionError", "ConnectTimeout", "ReadTimeout"}
          /\ last.idx < max_retries) => WentOn
    /\ (last.net \in {"ConnectionError", "ConnectTimeout", "ReadTimeout"}
          /\ last.idx >= max_retries) => EndedAtOnce
    /\ last.net = "TooManyRedirects" => EndedAtOnce

\* C3 witness: a read timeout on the last allowed request, after two sleeps.
C3_Witness ==
    /\ last.net = "ReadTimeout" /\ max_retries = 2 /\ last.idx = 2
    /\ fpc = "returned" /\ Len(sleeps) = 2

\* C4: the k-th sleep of a call (k from 0) lasts backoff_factor * 2^k; there is
\* one sleep between two consecutive requests and none after the last; with
\* max_retries = 3, backoff_factor = 0.3 and only retryable failures the sleeps
\* are 0.3, 0.6, 1.2 s and four requests precede the failure value.
C4_Backoff ==
    /\ \A k \in 1..Len(sleeps) : sleeps[k] = backoff_factor * 2^(k - 1)
    /\ fpc = "loop" => Len(sleeps) = attempts
    /\ fpc # "loop" => Len(sleeps) = attempts - 1
    /\ (fpc # "loop" /\ max_retries = 3 /\ backoff_factor = 3
          /\ retryableFailures = attempts)
         => (sleeps = <<3, 6, 12>> /\ attempts = 4 /\ ret = NoneVal)

\* C4 witness: the run of the example.
C4_Witness ==
    /\ fpc = "returned" /\ max_retries = 3 /\ backoff_factor = 3
    /\ retryableFailures = attempts /\ sleeps = <<3, 6, 12>>

\* C5: neither fetcher raises to its caller, whatever the request comes back with.
C5_NeverRaises == fpc # "raised"

\* C14: when the history endpoint answers with a 2xx status and an envelope whose
\* code is not "000000", get_deal returns the failure value on that attempt, with
\* no sleep and no further request, whatever number of retries remains.
C14_ApiErrorTerminal ==
    (fn = "get_deal" /\ LastWasResponse /\ last.status >= 200 /\ last.status < 300
        /\ last.code \notin {"none", "000000"})
      => (EndedAtOnce /\ Len(sleeps) = attempts - 1)

\* C14 witness: the second request of a call with three retries allowed (the
\* first was retried) is answered 200 with code 100001.
C14_Witness ==
    /\ fn = "get_deal" /\ max_retries = 3 /\ last.idx = 1
    /\ last.status = 200 /\ last.code = "100001"
    /\ fpc = "returned" /\ ret = NoneVal /\ attempts = 2

(***************************************************************************)
(* Claims about the threshold monitor (checked under SpecMonitor).         *)
(***************************************************************************)
Sent(sev) == {i \in 1..Len(cycleAlerts) : cycleAlerts[i].sev = sev}

\* C6: after any sequence of poll cycles the consecutive error count is
\* non-negative and equals the number of failed cycles since the most recent
\* successful cycle (0 right after a successful cycle).
C6_CountsFailedCycles ==
    /\ error_count >= 0
    /\ error_count = mh.failedSince

ParsedNumber ==
    /\ cycleInput.tag # "None"
    /\ cycleInput.result.tag = "dict"
    /\ cycleInput.result.current_copy_count.t = "int"

\* C8: a cycle that parsed a count sends exactly one warning alert when the count
\* is strictly below the threshold 1000 and no alert otherwise, whatever the
\* earlier cycles did; of the values 1500, 900, 1200 in consecutive cycles only
\* the second sends a warning.
C8_WarningIffBelow ==
    /\ (mpc = "sleep" /\ ParsedNumber) =>
          cycleAlerts = (IF cycleInput.result.current_copy_count.v < 1000
                         THEN <<Alert("warning", cycleInput.result.current_copy_count.v)>>
                         ELSE <<>>)
    /\ mh.scen = 3 => mh.scenWarn = <<FALSE, TRUE, FALSE>>

\* C8 witness: three consecutive cycles parsed 1500, 900, 1200.
C8_Witness ==
    /\ mpc = "sleep" /\ mh.scen = 3
    /\ cycleInput.result.current_copy_count.v = 1200

(***************************************************************************)
(* Claims about the ingestion loop (checked under SpecIngest: one loop).   *)
(***************************************************************************)
StoreIds == {store[k].id : k \in 1..Len(store)}

\* The record a loop has looked up and not inserted: the insert is its next
\* step, or it raised.
InFlight ==
    {Fingerprint(data[p][pos[p]]) :
        p \in {q \in Loops : \/ ipc[q] = "insert"
                             \/ ih.fault[q] \in {"insert_one", "DuplicateKeyError"}}}

\* C9: whatever lists of records the cycles of one ingestion loop bring (repeats
\* within and across cycles), the store holds exactly one entry per distinct
\* fingerprint seen: no record of a completed cycle is missing, none is stored
\* twice, and a cycle identical to an earlier one inserts nothing.
C9_OneEntryPerFingerprint ==
    /\ \A j, k \in 1..Len(store) :
          (store[j].id = store[k].id \/ store[j].fields = store[k].fields) => j = k
    /\ StoreIds \cup InFlight = {x.md5 : x \in ih.looked}
    /\ ipc[1] = "sleep" =>
          \A k \in 1..Len(ih.input[1]) :
              \E j \in 1..Len(store) : store[j].fields = ih.input[1][k]
    /\ (ipc[1] = "sleep" /\ ih.marked = [tag |-> "list", items |-> ih.input[1]])
          => Len(store) = ih.startLen[1]

\* C9 witness: the third cycle repeats an earlier one of two records and leaves
\* the two stored entries as they were.
C9_Witness ==
    /\ ipc[1] = "sleep" /\ ih.cycles[1] = 3
    /\ ih.input[1] = <<RecBtcBuy, RecBtcSell>>
    /\ ih.marked = [tag |-> "list", items |-> ih.input[1]]
    /\ Len(store) = 2 /\ ih.startLen[1] = 2

\* Two records have identical field content: the same keys with the same values
\* (the dicts are equal in Python).
SameContent(a, b) == {a[k] : k \in 1..Len(a)} = {b[k] : k \in 1..Len(b)}

\* Two records differ in exactly one field.
DifferInOneField(a, b) ==
    /\ {a[k][1] : k \in 1..Len(a)} = {b[k][1] : k \in 1..Len(b)}
    /\ Cardinality({a[k] : k \in 1..Len(a)} \ {b[k] : k \in 1..Len(b)}) = 1

\* C10: the fingerprints the ingestion code computes are equal for two records
\* with identical field content, in whatever order their fields were inserted,
\* and differ for two records that differ in one field.
C10_FingerprintByContent ==
    \A x, y \in ih.looked :
        /\ SameContent(x.rec, y.rec) => x.md5 = y.md5
        /\ DifferInOneField(x.rec, y.rec) => x.md5 # y.md5

IsInfo(a) == a.sev = "info"
InfoAlerts == SelectSeq(sent, IsInfo)

\* A loop has inserted a record and is about to make the dd_sender call for it.
AlertDue == {p \in Loops : ipc[p] = "alert"}

\* C11: across any sequence of cycles one informational alert is emitted for each
\* record newly inserted into the store, after its insert, and none for a record
\* found to be a duplicate: the k-th informational alert is about the k-th entry
\* of the store, and the number of informational alerts equals the number of
\* entries inserted (less the one whose alert is the step the loop is at).
C11_InfoAlertPerInsert ==
    /\ Len(InfoAlerts) + Cardinality(AlertDue) = Len(store)
    /\ \A k \in 1..Len(InfoAlerts) : InfoAlerts[k].rec = store[k].fields
    /\ \A p \in AlertDue : store[Len(store)].fields = data[p][pos[p]]

\* C11 witness: the second cycle brought a new record and one the first cycle
\* had stored; only the new one was inserted and alerted for.
C11_Witness ==
    /\ ipc[1] = "sleep" /\ ih.cycles[1] = 2
    /\ ih.input[1] = <<RecBtcSell, RecBtcBuy>>
    /\ Len(store) = 2 /\ ih.startLen[1] = 1 /\ Len(InfoAlerts) = 2

CriticalBy(p) == {k \in 1..Len(sent) : sent[k].sev = "critical" /\ sent[k].loop = p}

\* C12: the ingestion loop emits its critical alert only after 5 consecutive
\* get_deal calls returned no data (a cycle that obtained data in between starts
\* the count again from 0), and it emits that alert exactly once.
C12_CriticalAfterFiveConsecutive ==
    \A p \in Loops :
        /\ retry_count[p] = ih.run[p]
        /\ Cardinality(CriticalBy(p)) <= 1
        /\ CriticalBy(p) # {} => ih.run[p] >= RetryLimit

(***************************************************************************)
(* Claims about parse_binance_lead_data (checked under SpecMonitor, whose  *)
(* cycles call it on every page).                                          *)
(***************************************************************************)
\* The stage at which parsing a fetched page fails.
StageOf(page) ==
    IF ~page.marker THEN "marker-not-found"
    ELSE IF page.json = "invalid" THEN "json-decode"
    ELSE IF page.json = "object" /\ page.path # "ok" THEN "path-traversal"
    ELSE "other"

ParsedPage == mpc = "sleep" /\ cycleInput.fetched
StageFailure == ParsedPage /\ StageOf(cycleInput.page) # "other"

\* C13: parse_binance_lead_data returns a failure that identifies which stage
\* failed (marker-not-found, json-decode or path-traversal), and in none of these
\* cases raises or returns a partial result.
C13_FailureNamesStage ==
    StageFailure =>
        cycleInput.result = [tag |-> "ParseError", stage |-> StageOf(cycleInput.page)]

\* C13 as amended: in each of the three cases the call returns None, the same
\* value whatever the stage, without raising and without a partial result; a
\* missing marker leaves by the return of line 170, invalid JSON and a missing
\* key or index both by the handler of lines 178-180.
C13_FailureIsNone ==
    StageFailure =>
        /\ cycleInput.result = NoneVal
        /\ mh.kind = "failure"
        /\ cycleInput.exit =
              (IF StageOf(cycleInput.page) = "marker-not-found" THEN 170 ELSE 180)

\* C13 witness: a page with valid JSON and an index out of range on the path.
C13_Witness ==
    /\ StageFailure /\ cycleInput.page.path = "IndexError"
    /\ cycleInput.result = NoneVal

StoreFailed == {p \in Loops : ih.fault[p] \in {"find_one", "insert_one"}}
StoredFields == {store[k].fields : k \in 1..Len(store)}

\* C15: when the store lookup or the store insert fails while a record is being
\* ingested, the error reaches the caller of get_data_insert (the loop does not go
\* on) and no informational alert is emitted for the record that was not stored.
C15_StoreErrorSurfaces ==
    \A p \in StoreFailed :
        /\ ipc[p] = "raised"
        /\ Len(InfoAlerts) = Len(store)
        /\ data[p][pos[p]] \notin StoredFields =>
              \A k \in 1..Len(sent) : sent[k].rec # data[p][pos[p]]

\* C15 witness: the insert of the second record of a cycle failed; the first
\* record is stored and alerted for, the second is neither.
C15_Witness ==
    /\ ih.fault[1] = "insert_one" /\ pos[1] = 2
    /\ data[1][2] \notin StoredFields
    /\ Len(store) = 1 /\ Len(InfoAlerts) = 1

\* C20: the ingestion loop never terminates on its own: after it has emitted its
\* critical alert for repeated fetch failure it goes on to later polling cycles
\* (it has not left get_data_insert), so that records that appear upstream
\* afterwards are still ingested.
C20_IngestGoesOn ==
    \A p \in Loops : CriticalBy(p) # {} => ipc[p] \in {"fetch", "lookup", "insert", "alert", "sleep"}

\* C21: a success response whose data list is empty is returned by get_deal as an
\* empty list, and the ingestion loop treats that cycle as a successful one with
\* nothing to ingest: it adds nothing to the retry count (which counts at most
\* the calls that returned None), and no run of such cycles leads to the critical
\* alert or to the loop stopping.
C21_EmptyListIsSuccess ==
    \A p \in Loops :
        /\ retry_count[p] <= ih.nones[p]
        /\ (CriticalBy(p) # {} \/ ipc[p] = "returned") => ih.nones[p] >= RetryLimit

\* Loop p is at the lookup of a record whose fingerprint is in the store.
AtDuplicate(p) == ipc[p] = "lookup" /\ Fingerprint(data[p][pos[p]]) \in StoreIds

\* C22: ingesting a record whose fingerprint is already in the store performs no
\* write: the step of the lookup that finds it leaves the store and the alerts
\* sent as they were, and the loop goes on to the next record of the same cycle
\* (to the sleep after the last one).
C22_DuplicateIsNoOp ==
    [][\A p \in Loops :
          (AtDuplicate(p) /\ ipc'[p] # "raised" /\ <<ipc[p], pos[p]>> # <<ipc'[p], pos'[p]>>)
            => /\ store' = store
               /\ sent' = sent
               /\ data'[p] = data[p]
               /\ pos'[p] = pos[p] + 1
               /\ ipc'[p] = (IF pos[p] < Len(data[p]) THEN "lookup" ELSE "sleep")]_vars

\* C22 witness: the first record of a cycle was in the store and was skipped; the
\* loop is at the second record, with the store and the alerts as the cycle
\* found them.
C22_Witness ==
    /\ ipc[1] = "lookup" /\ pos[1] = 2
    /\ Fingerprint(data[1][1]) \in StoreIds
    /\ Len(store) = ih.startLen[1] /\ Len(InfoAlerts) = Len(store)

\* Every entry's id is the fingerprint of its own fields.
IdsAreFingerprints == \A k \in 1..Len(store) : store[k].id = Fingerprint(store[k].fields)

\* C23: in every reachable state of the ingestion loop each store entry has an id
\* equal to the fingerprint computed from its own fields (the record as received,
\* before the id was added), and an entry once inserted is never modified or
\* removed: the store content only grows.
C23_StoreOnlyGrows ==
    /\ []IdsAreFingerprints
    /\ [][/\ Len(store') >= Len(store)
          /\ \A k \in 1..Len(store) : store'[k] = store[k]]_vars

\* C23 witness: three entries were inserted over two cycles.
C23_Witness ==
    /\ Len(store) = 3 /\ ih.cycles[1] = 2 /\ ipc[1] = "sleep"
    /\ store[3].id = Fingerprint(store[3].fields)

(***************************************************************************)
(* Claims about two ingestion loops on one store (checked under            *)
(* SpecIngest2).                                                           *)
(***************************************************************************)
InfoAlertsAbout(rec) == {k \in 1..Len(sent) : sent[k].sev = "info" /\ sent[k].rec = rec}

\* C16: with two ingestion loops on one store whose ids are unique, under every
\* interleaving of their lookup and insert steps for the same record the store
\* holds exactly one entry for that fingerprint, exactly one loop reports the
\* record as inserted (and alerts for it), and the other loop treats it as a
\* duplicate and goes on with its cycle without an error.
C16_ConcurrentSameRecord ==
    /\ \A j, k \in 1..Len(store) : store[j].id = store[k].id => j = k
    /\ \A k \in 1..Len(store) :
          Cardinality(InfoAlertsAbout(store[k].fields)) <= 1
    /\ \A p \in Loops : ih.fault[p] # "DuplicateKeyError"

(***************************************************************************)
(* Claims about dd_sender (checked under SpecMonitor, whose passes call it *)
(* for every alert).                                                       *)
(***************************************************************************)
Undelivered == {k \in 1..Len(mh.dd) : ~mh.dd[k].delivered}

\* C17: dd_sender makes exactly one webhook call per invocation, with no retry,
\* and when the delivery fails (error status or transport failure) it returns
\* without raising: the monitor's pass goes on as if the alert had been
\* delivered (it sends the alerts that follow and reaches its sleep) and the
\* consecutive error count is what the pass made it, whatever was delivered.
C17_DeliveryFailureIgnored ==
    /\ mpc \in {"body", "sleep"}
    /\ \A k \in 1..Len(mh.dd) : mh.dd[k].posts = 1 /\ ~mh.dd[k].raised
    /\ mpc = "sleep" =>
          /\ Len(mh.dd) = Len(cycleAlerts)
          /\ cycleAlerts = main_body(mh.before, cycleInput.result).alerts
          /\ error_count = main_body(mh.before, cycleInput.result).error_count

\* C17 witness: the 5th failed pass in a row; neither its error alert nor its
\* critical alert was delivered, and the count is 5.
C17_Witness ==
    /\ mpc = "sleep" /\ mh.kind = "failure" /\ error_count = 5
    /\ Len(cycleAlerts) = 2 /\ Undelivered = {1, 2}

(***************************************************************************)
(* Claims about the course of the monitor loop (checked under              *)
(* SpecMonitorLive).                                                       *)
(***************************************************************************)
\* The loop is in its body or in its sleep, there has been one sleep of
\* check_interval seconds for each completed pass but the one just ended.
OneSleepPerPass ==
    /\ mpc \in {"body", "sleep"}
    /\ mpc = "body" => mh.sleeps = mh.cycles
    /\ mpc = "sleep" => mh.sleeps = mh.cycles - 1
    /\ mh.sleeps > 0 => mh.slept = 60

\* C18: the threshold monitor loop never terminates on its own: every pass,
\* whether it succeeded, failed or ended in the exception handler, is followed by
\* exactly one sleep of the fixed check interval and then by another pass (passes
\* are followed up to MaxCycles).
C18_LoopsForever ==
    /\ []OneSleepPerPass
    /\ (mpc = "sleep") ~> (mpc = "body")
    /\ (mpc = "body" /\ mh.cycles < MaxCycles) ~> (mpc = "sleep")

\* C18 witness: a pass that ended in the exception handler was followed by the
\* sleep of 60 seconds, and the loop is at its next pass.
C18_Witness ==
    /\ mpc = "body" /\ mh.kind = "exception" /\ mh.cycles = 3
    /\ mh.sleeps = 3 /\ mh.slept = 60

\* C19: the threshold monitor sends a notification in a pass only if the copy
\* count is below 1000 or the number of consecutive errors has exceeded 5; a
\* pass in which neither holds sends none.
C19_NotifiesOnlyBelowOrOverFive ==
    (mpc = "sleep" /\ cycleAlerts # <<>>) =>
        \/ ParsedNumber /\ cycleInput.result.current_copy_count.v < 1000
        \/ error_count > 5

ErrorPass == mpc = "sleep" /\ mh.kind \in {"failure", "exception"}

\* C24: in every pass of the threshold monitor that ends on an error path (a
\* failed result of parse_binance_lead_data, or an exception caught by the
\* handler at any point of the loop body, also after a successful parse) the
\* consecutive error count at the end of the pass is one more than at the end of
\* the previous pass, so max_error_count consecutive error passes of any kind
\* reach the critical alert.
C24_ErrorPathsCountOne ==
    ErrorPass =>
        /\ error_count = mh.before + 1
        /\ mh.failedSince >= 5 => Sent("critical") # {}

\* The pass fetched a page whose currentCopyCount is the number n.
ParsedCount(n) ==
    /\ mpc = "sleep" /\ cycleInput.fetched
    /\ ParseRaises(cycleInput.page) = "none" /\ cycleInput.page.marker
    /\ cycleInput.page.count = JInt(n)

\* The pass fetched a page that parses down to an absent (null) count.
ParsedNull ==
    /\ mpc = "sleep" /\ cycleInput.fetched
    /\ ParseRaises(cycleInput.page) = "none" /\ cycleInput.page.marker
    /\ cycleInput.page.count = JNull

\* C25: a parsed copy count of 0 makes a successful pass: parse_binance_lead_data
\* returns a result for it, the monitor resets the consecutive error count to 0
\* and sends the below-threshold warning and no error or critical alert; an
\* absent (null) count is a failure.
C25_ZeroIsSuccess ==
    /\ ParsedCount(0) =>
          /\ cycleInput.result = [tag |-> "dict", current_copy_count |-> JInt(0)]
          /\ mh.kind = "success"
          /\ error_count = 0
          /\ cycleAlerts = <<Alert("warning", 0)>>
    /\ ParsedNull =>
          /\ cycleInput.result = NoneVal
          /\ mh.kind = "failure"
          /\ error_count = mh.before + 1

\* C25 witness: after three failed passes a pass parses the count 0.
C25_Witness ==
    /\ ParsedCount(0) /\ mh.before = 3
    /\ error_count = 0 /\ Sent("warning") = {1}

====
